---- MODULE Spec2Model ----
(***************************************************************************)
(* Champions-league fixture scheduler (src/src/main.rs).                   *)
(*                                                                         *)
(* main reads the roster (read_teams), builds the engine (CSPMatches::new),*)
(* runs one greedy pass (schedule_matches), prints the fixtures and saves  *)
(* them.  The model follows that control flow: one action per record read, *)
(* one for the constructor, one per turn of the outer loop of              *)
(* schedule_matches, one each for display_matches and save_matches.  A     *)
(* Rust panic (unwrap on None / Err) ends the run in pc = "panicked" with  *)
(* the state the program had when it panicked.                             *)
(***************************************************************************)
EXTENDS Integers, Sequences, FiniteSets, TLC

VARIABLES
    pc,                 \* control position of main
    panic_at,           \* "none", or the function whose unwrap panicked
    ncols,              \* number of fields of the csv header row
    nread,              \* number of data records the csv reader has yielded
    teams,              \* Vec<Team>: the roster, in input order
    domains,            \* HashMap<Team, HashSet<Team>>
    scheduled_matches,  \* Vec<Match>
    group_requirements, \* HashMap<Team, HashMap<u8, (u8, u8)>>
    idx,                \* position of the outer loop of schedule_matches
    passes,             \* number of calls of schedule_matches so far
    stdout,             \* the lines display_matches has printed
    sink,               \* the records of Scheduled_Matches.csv
    exports             \* number of calls of save_matches that wrote the file

io == <<stdout, sink, exports>>

vars == <<pc, panic_at, ncols, nread, teams, domains, scheduled_matches,
          group_requirements, idx, passes, stdout, sink, exports>>

---------------------------------------------------------------------------
(* Bounds of the model *)

MaxRecords == 3
MaxPasses == 2
MaxExports == 2

(* Program constants *)

GroupLo == 1
GroupHi == 4
U8Max == 255

---------------------------------------------------------------------------
(* Entity model *)

Team(name, country, group) == [name |-> name, country |-> country, group |-> group]

Match(home_team, away_team) == [home_team |-> home_team, away_team |-> away_team]

Range(s) == {s[i] : i \in 1..Len(s)}

---------------------------------------------------------------------------
(* Roster source: the rows a csv file may hold.  A row is a tuple of       *)
(* fields; name and country are strings, the group field is kept as the    *)
(* sequence of its characters so that parsing it is a computation.         *)

RowPool ==
    { <<"A", "X", <<"1">>>>,
      <<"B", "X", <<"1">>>>,
      <<"C", "Y", <<"1">>>>,
      <<"A", "Y", <<"+", "4">>>>,
      <<"B", "Y", <<"7">>>>,
      <<"C", "X", <<"x">>>>,
      <<"C", "Y", <<>>>>,
      <<"C", "Y", <<"2", "5", "6">>>>,
      <<"C", "Y", <<"-", "1">>>>,
      <<"team", "country", <<"g">>>>,
      <<"A", "X">>,
      <<"B", "Y">> }

HeaderWidths == {2, 3}

DigitChars == {"0", "1", "2", "3", "4", "5", "6", "7", "8", "9"}

DigitVal(c) ==
    CASE c = "0" -> 0 [] c = "1" -> 1 [] c = "2" -> 2 [] c = "3" -> 3
      [] c = "4" -> 4 [] c = "5" -> 5 [] c = "6" -> 6 [] c = "7" -> 7
      [] c = "8" -> 8 [] c = "9" -> 9

RECURSIVE ParseDigits(_, _)
(* Accumulates decimal digits left to right; -1 on a non-digit or on a     *)
(* value that does not fit a u8.                                           *)
ParseDigits(chars, acc) ==
    IF chars = <<>> THEN acc
    ELSE IF Head(chars) \notin DigitChars THEN -1
    ELSE LET v == acc * 10 + DigitVal(Head(chars))
         IN IF v > U8Max THEN -1 ELSE ParseDigits(Tail(chars), v)

(* str::parse::<u8>: the value, or -1 for Err.  An empty string, a lone    *)
(* sign, a '-' and any non-digit are errors; one leading '+' is accepted.  *)
ParseU8(chars) ==
    IF chars = <<>> THEN -1
    ELSE IF Head(chars) = "+"
         THEN (IF Len(chars) = 1 THEN -1 ELSE ParseDigits(Tail(chars), 0))
         ELSE ParseDigits(chars, 0)

(* StringRecord::get(i) with unwrap_or(default); fields are 0-based.       *)
GetOr(record, i, default) ==
    IF i + 1 <= Len(record) THEN record[i + 1] ELSE default

---------------------------------------------------------------------------
(* Constraint evaluator *)

(* Faulty variant: compares the names instead of the countries.            *)
constraint_different_name(team1, team2) == team1.name # team2.name

constraint_different_country(team1, team2) == team1.country # team2.country

constraints == <<"constraint_different_country">>

ApplyConstraint(c, team1, team2) ==
    CASE c = "constraint_different_country" -> constraint_different_country(team1, team2)

(* Faulty variant: the test of a constraint's verdict is inverted.         *)
satisfies_constraints_inverted(team1, team2) ==
    \A i \in 1..Len(constraints) : ~ApplyConstraint(constraints[i], team1, team2)

satisfies_constraints(team1, team2) ==
    \A i \in 1..Len(constraints) : ApplyConstraint(constraints[i], team1, team2)

---------------------------------------------------------------------------
(* Domain store and balance tracker *)

(* Faulty variant: competitors are told apart by name alone.               *)
initialize_domains_by_name(ts) ==
    [team \in Range(ts) |-> {opponent \in Range(ts) : team.name # opponent.name}]

(* Faulty variant: the `team != opponent` test is missing.                 *)
initialize_domains_with_self(ts) ==
    [team \in Range(ts) |-> Range(ts)]

initialize_domains(ts) ==
    [team \in Range(ts) |-> {opponent \in Range(ts) : team # opponent}]

(* Faulty variant: the exclusive range 1..4 instead of 1..=4.              *)
initialize_group_requirements_exclusive(ts) ==
    [team \in Range(ts) |-> [group \in GroupLo..(GroupHi - 1) |-> <<0, 0>>]]

initialize_group_requirements(ts) ==
    [team \in Range(ts) |-> [group \in GroupLo..GroupHi |-> <<0, 0>>]]

(* entry.k += 1 on a u8, as a build without overflow checks computes it.   *)
(* A counter is bumped at most twice per opponent, so within the bounds of *)
(* this model the sum never comes near U8Max and no build differs.         *)
Incr(x) == (x + 1) % (U8Max + 1)

(* Faulty variant: both slots of the entry are incremented.                *)
BumpBothSlots(reqs, team, group, k) ==
    [reqs EXCEPT ![team][group] = <<Incr(@[1]), Incr(@[2])>>]

Bump(reqs, team, group, k) ==
    [reqs EXCEPT ![team][group][k] = Incr(@)]

(* Faulty variant: the entry is looked up by the side's own group.         *)
TrackSideOwnGroup(r, a, b, k) ==
    IF r.panicked THEN r
    ELSE IF a \notin DOMAIN r.reqs THEN r
    ELSE IF a.group \notin DOMAIN r.reqs[a] THEN [panicked |-> TRUE, reqs |-> r.reqs]
    ELSE [panicked |-> FALSE, reqs |-> Bump(r.reqs, a, a.group, k)]

(* One half of update_group_tracking: the side `a` gets its counter against *)
(* b.group bumped in slot k.  The lookup of b.group is unwrapped.           *)
TrackSide(r, a, b, k) ==
    IF r.panicked THEN r
    ELSE IF a \notin DOMAIN r.reqs THEN r
    ELSE IF b.group \notin DOMAIN r.reqs[a] THEN [panicked |-> TRUE, reqs |-> r.reqs]
    ELSE [panicked |-> FALSE, reqs |-> Bump(r.reqs, a, b.group, k)]

(* Faulty variant: only team1's counters are updated.                      *)
update_group_tracking_one_side(reqs, team1, team2, home) ==
    TrackSide([panicked |-> FALSE, reqs |-> reqs], team1, team2, IF home THEN 1 ELSE 2)

update_group_tracking(reqs, team1, team2, home) ==
    LET r0 == [panicked |-> FALSE, reqs |-> reqs]
        r1 == TrackSide(r0, team1, team2, IF home THEN 1 ELSE 2)
    IN  TrackSide(r1, team2, team1, IF home THEN 2 ELSE 1)

---------------------------------------------------------------------------
(* Scheduling engine helpers *)

(* The orders in which a HashSet may be iterated: all its enumerations.    *)
IterationOrders(S) ==
    {s \in [1..Cardinality(S) -> S] : Range(s) = S}

(* Faulty variant: takes the first candidate without consulting the       *)
(* constraints.                                                            *)
FirstCandidate(team, domain_list, i) ==
    IF i > Len(domain_list) THEN 0 ELSE i

(* Faulty variant: the scan starts behind the first candidate.             *)
FirstAcceptedSkipHead(team, domain_list, i) ==
    IF i + 1 > Len(domain_list) THEN 0
    ELSE IF satisfies_constraints(team, domain_list[i + 1]) THEN i + 1
    ELSE 0

(* Faulty variant: the scan gives up at the first rejected candidate.      *)
FirstAcceptedStopAtReject(team, domain_list, i) ==
    IF i > Len(domain_list) THEN 0
    ELSE IF satisfies_constraints(team, domain_list[i]) THEN i
    ELSE 0

RECURSIVE FirstAccepted(_, _, _)
(* Index of the first candidate of domain_list, from position i on, that   *)
(* the constraints accept; 0 when the scan ends without one.               *)
FirstAccepted(team, domain_list, i) ==
    IF i > Len(domain_list) THEN 0
    ELSE IF satisfies_constraints(team, domain_list[i]) THEN i
    ELSE FirstAccepted(team, domain_list, i + 1)

(* Faulty variant: the team's own domain is left as it was.                *)
remove_from_opponent_only(doms, team, opponent) ==
    [doms EXCEPT ![opponent] = @ \ {team}]

(* Faulty variant: the opponent's domain is left as it was.                *)
remove_from_team_only(doms, team, opponent) ==
    [doms EXCEPT ![team] = @ \ {opponent}]

remove_mutual(doms, team, opponent) ==
    [doms EXCEPT ![team] = @ \ {opponent}, ![opponent] = @ \ {team}]

---------------------------------------------------------------------------
(* Initial state: main has opened the file; nothing is read yet.           *)

Init ==
    /\ pc = "reading"
    /\ panic_at = "none"
    /\ ncols \in HeaderWidths
    /\ nread = 0
    /\ teams = <<>>
    /\ domains = <<>>
    /\ scheduled_matches = <<>>
    /\ group_requirements = <<>>
    /\ idx = 0
    /\ passes = 0
    /\ stdout = <<>>
    /\ sink = <<>>
    /\ exports = 0

Panic(where) ==
    /\ pc' = "panicked"
    /\ panic_at' = where

(* One iteration of the loop of read_teams over rdr.records().             *)
ReadRecord(record) ==
    /\ pc = "reading"
    /\ nread < MaxRecords
    /\ nread' = nread + 1
    /\ UNCHANGED <<ncols, domains, scheduled_matches, group_requirements, idx, passes>>
    /\ UNCHANGED io
    /\ IF Len(record) # ncols
       THEN Panic("read_teams") /\ UNCHANGED teams
       ELSE IF GetOr(record, 0, "") = "team"
       THEN UNCHANGED <<pc, panic_at, teams>>
       ELSE LET team_name == GetOr(record, 0, "")
                country == GetOr(record, 1, "")
                group == ParseU8(GetOr(record, 2, <<"0">>))
            IN  IF group < 0
                THEN Panic("read_teams") /\ UNCHANGED teams
                ELSE /\ teams' = Append(teams, Team(team_name, country, group))
                     /\ UNCHANGED <<pc, panic_at>>

(* rdr.records() is exhausted: read_teams returns the roster.              *)
ReadTeamsReturn ==
    /\ pc = "reading"
    /\ pc' = "read"
    /\ UNCHANGED <<panic_at, ncols, nread, teams, domains, scheduled_matches,
                   group_requirements, idx, passes>>
    /\ UNCHANGED io

(* CSPMatches::new *)
New ==
    /\ pc = "read"
    /\ domains' = initialize_domains(teams)
    /\ group_requirements' = initialize_group_requirements(teams)
    /\ scheduled_matches' = <<>>
    /\ pc' = "pending"
    /\ UNCHANGED <<panic_at, ncols, nread, teams, idx, passes>>
    /\ UNCHANGED io

(* Faulty variant: every pass starts from freshly initialized domains.     *)
StartPassResettingDomains ==
    /\ pc \in {"pending", "completed"}
    /\ passes < MaxPasses
    /\ passes' = passes + 1
    /\ idx' = 1
    /\ pc' = "scheduling"
    /\ domains' = initialize_domains(teams)
    /\ UNCHANGED <<panic_at, ncols, nread, teams, scheduled_matches,
                   group_requirements>>
    /\ UNCHANGED io

(* Entry of schedule_matches: the roster snapshot and the loop start.      *)
StartPass ==
    /\ pc \in {"pending", "completed"}
    /\ passes < MaxPasses
    /\ passes' = passes + 1
    /\ idx' = 1
    /\ pc' = "scheduling"
    /\ UNCHANGED <<panic_at, ncols, nread, teams, domains, scheduled_matches,
                   group_requirements>>
    /\ UNCHANGED io

(* Faulty variant: the forward fixture has its sides swapped.              *)
CommitForwardSwapped(matches, team, opponent) == Append(matches, Match(opponent, team))

(* scheduled_matches.push(Match::new(team, opponent)) *)
CommitForward(matches, team, opponent) == Append(matches, Match(team, opponent))

(* Faulty variant: the return fixture repeats the forward direction.       *)
CommitReturnSameDirection(matches, team, opponent) == Append(matches, Match(team, opponent))

(* scheduled_matches.push(Match::new(opponent, team)) *)
CommitReturn(matches, team, opponent) == Append(matches, Match(opponent, team))

(* The state after the turn of `team` over the candidates in the order     *)
(* domain_list; `panic` names the unwrap that failed, if one did, and the  *)
(* other fields are the engine's state at that point.                      *)
TurnResult(team, domain_list) ==
    LET k == FirstAccepted(team, domain_list, 1)
        same == [panic |-> "none", matches |-> scheduled_matches,
                 reqs |-> group_requirements, doms |-> domains]
    IN  IF k = 0 THEN same
        ELSE
        LET opponent == domain_list[k]
            m1 == CommitForward(scheduled_matches, team, opponent)
            r1 == update_group_tracking(group_requirements, team, opponent, TRUE)
            m2 == CommitReturn(m1, team, opponent)
            r2 == update_group_tracking(r1.reqs, opponent, team, FALSE)
        IN  IF r1.panicked
            THEN [panic |-> "update_group_tracking", matches |-> m1,
                  reqs |-> r1.reqs, doms |-> domains]
            ELSE IF r2.panicked
            THEN [panic |-> "update_group_tracking", matches |-> m2,
                  reqs |-> r2.reqs, doms |-> domains]
            ELSE IF opponent \notin DOMAIN domains
            THEN [panic |-> "schedule_matches", matches |-> m2, reqs |-> r2.reqs,
                  doms |-> [domains EXCEPT ![team] = @ \ {opponent}]]
            ELSE [panic |-> "none", matches |-> m2, reqs |-> r2.reqs,
                  doms |-> remove_mutual(domains, team, opponent)]

(* One iteration of `for team in &team_list`.                              *)
Turn ==
    /\ pc = "scheduling"
    /\ idx <= Len(teams)
    /\ IF teams[idx] \notin DOMAIN domains
       THEN /\ Panic("schedule_matches")
            /\ UNCHANGED <<scheduled_matches, group_requirements, domains, idx>>
       ELSE \E domain_list \in IterationOrders(domains[teams[idx]]) :
              LET res == TurnResult(teams[idx], domain_list)
              IN  /\ scheduled_matches' = res.matches
                  /\ group_requirements' = res.reqs
                  /\ domains' = res.doms
                  /\ IF res.panic # "none"
                     THEN Panic(res.panic) /\ UNCHANGED idx
                     ELSE idx' = idx + 1 /\ UNCHANGED <<pc, panic_at>>
    /\ UNCHANGED <<ncols, nread, teams, passes>>
    /\ UNCHANGED io

(* The outer loop is exhausted: schedule_matches returns.                  *)
EndPass ==
    /\ pc = "scheduling"
    /\ idx > Len(teams)
    /\ pc' = "completed"
    /\ UNCHANGED <<panic_at, ncols, nread, teams, domains, scheduled_matches,
                   group_requirements, idx, passes>>
    /\ UNCHANGED io

---------------------------------------------------------------------------
(* Fixture reporting *)

(* String::cmp on the names the roster source can yield: the byte order.   *)
NameRank(name) ==
    CASE name = "" -> 0 [] name = "A" -> 1 [] name = "B" -> 2 [] name = "C" -> 3
      [] name = "team" -> 4

(* Faulty variant: the rows are ordered by the away side's name.           *)
SortKeyAway(m) == NameRank(m.away_team.name)

(* The key of the comparator of save_matches.                              *)
SortKey(m) == NameRank(m.home_team.name)

(* m put into a list that is sorted by key, behind every element whose key *)
(* is not greater: what a stable sort does with a later element.           *)
InsertStable(sorted, m) ==
    LET k == Cardinality({i \in 1..Len(sorted) : SortKey(sorted[i]) <= SortKey(m)})
    IN  SubSeq(sorted, 1, k) \o <<m>> \o SubSeq(sorted, k + 1, Len(sorted))

RECURSIVE sort_by_home_name(_)
(* Vec::sort_by (a stable sort) with the comparator of save_matches.       *)
sort_by_home_name(matches) ==
    IF matches = <<>> THEN <<>>
    ELSE InsertStable(sort_by_home_name(SubSeq(matches, 1, Len(matches) - 1)),
                      matches[Len(matches)])

(* One csv record / one printed line of a fixture: the two names.          *)
NameRow(m) == <<m.home_team.name, m.away_team.name>>

HeaderRow == <<"Home Team", "Away Team">>

(* The records save_matches writes for the list `matches`.                 *)
ExportRows(matches) ==
    LET sorted == sort_by_home_name(matches)
    IN  <<HeaderRow>> \o [i \in 1..Len(sorted) |-> NameRow(sorted[i])]

(* display_matches: one line per fixture, in commit order.                 *)
DisplayMatches ==
    /\ pc = "completed"
    /\ stdout' = stdout \o [i \in 1..Len(scheduled_matches) |-> NameRow(scheduled_matches[i])]
    /\ pc' = "displayed"
    /\ UNCHANGED <<panic_at, ncols, nread, teams, domains, scheduled_matches,
                   group_requirements, idx, passes, sink, exports>>

(* save_matches: sorts a clone of the list and writes it; the writer's     *)
(* unwrap panics when the destination cannot be written.                   *)
SaveMatches ==
    /\ pc \in {"displayed", "saved"}
    /\ exports < MaxExports
    /\ \E writable \in BOOLEAN :
         IF writable
         THEN /\ sink' = ExportRows(scheduled_matches)
              /\ exports' = exports + 1
              /\ pc' = "saved"
              /\ UNCHANGED panic_at
         ELSE /\ Panic("save_matches")
              /\ UNCHANGED <<sink, exports>>
    /\ UNCHANGED <<ncols, nread, teams, domains, scheduled_matches,
                   group_requirements, idx, passes, stdout>>

Next ==
    \/ \E record \in RowPool : ReadRecord(record)
    \/ ReadTeamsReturn
    \/ New
    \/ StartPass
    \/ Turn
    \/ EndPass
    \/ DisplayMatches
    \/ SaveMatches

Spec == Init /\ [][Next]_vars

(* The pass is a sequential loop: a started pass keeps taking its turns.    *)
FairSpec == Spec /\ WF_vars(Turn) /\ WF_vars(EndPass)

---------------------------------------------------------------------------
(* Vocabulary of the properties *)

Roster == Range(teams)

Groups == GroupLo..GroupHi

(* The engine exists and is at a turn boundary (no turn is cut short).     *)
AtTurnBoundary == pc \in {"pending", "scheduling", "completed", "displayed", "saved"}

EnginePanicked ==
    pc = "panicked" /\ panic_at \in {"update_group_tracking", "schedule_matches"}

EngineBuilt == AtTurnBoundary \/ EnginePanicked

home_count(c, g) == group_requirements[c][g][1]

away_count(c, g) == group_requirements[c][g][2]

(* Positions of the committed fixtures with c at home against group g.     *)
HomeFixtures(c, g) ==
    {i \in 1..Len(scheduled_matches) :
        /\ scheduled_matches[i].home_team = c
        /\ scheduled_matches[i].away_team.group = g}

AwayFixtures(c, g) ==
    {i \in 1..Len(scheduled_matches) :
        /\ scheduled_matches[i].away_team = c
        /\ scheduled_matches[i].home_team.group = g}

Directed(x, y) ==
    {i \in 1..Len(scheduled_matches) : scheduled_matches[i] = Match(x, y)}

DistinctRoster ==
    \A i, j \in 1..Len(teams) : i # j => teams[i] # teams[j]

WellFormedRoster ==
    /\ teams # <<>>
    /\ DistinctRoster
    /\ \A t \in Roster : t.group \in Groups

OneCountry == \A a, b \in Roster : a.country = b.country

---------------------------------------------------------------------------
(* C1: every committed fixture, forward or return, joins two competitors   *)
(* of different countries that are different entities; this holds in every *)
(* state, for every roster and every candidate order.                      *)
C1_FixturesCrossCountry ==
    \A i \in 1..Len(scheduled_matches) :
        /\ scheduled_matches[i].home_team.country # scheduled_matches[i].away_team.country
        /\ scheduled_matches[i].home_team # scheduled_matches[i].away_team

(* A return fixture has been committed in the middle of a pass.            *)
C1_Witness ==
    /\ pc = "scheduling"
    /\ Len(scheduled_matches) >= 2
    /\ scheduled_matches[2].home_team = scheduled_matches[1].away_team

(* C2: after a run, home_count(c,g) is the number of result fixtures with  *)
(* c at home against a group-g competitor and away_count(c,g) the number   *)
(* with c away against a group-g competitor.                               *)
C2_CountersMatchSides ==
    pc = "completed" =>
        \A c \in Roster : \A g \in Groups :
            /\ home_count(c, g) = Cardinality(HomeFixtures(c, g))
            /\ away_count(c, g) = Cardinality(AwayFixtures(c, g))

(* C3: the counters start at (0,0) for every competitor and group, and at  *)
(* every turn boundary home_count + away_count is the number of committed  *)
(* fixtures of c against group g.                                          *)
C3_BalanceSum ==
    /\ pc = "pending" =>
          /\ DOMAIN group_requirements = Roster
          /\ \A c \in Roster :
                /\ DOMAIN group_requirements[c] = Groups
                /\ \A g \in Groups : group_requirements[c][g] = <<0, 0>>
    /\ AtTurnBoundary =>
          \A c \in Roster : \A g \in Groups :
              home_count(c, g) + away_count(c, g)
                  = Cardinality(HomeFixtures(c, g)) + Cardinality(AwayFixtures(c, g))

(* A turn has just committed a pairing and the pass goes on.               *)
C3_Witness ==
    /\ pc = "scheduling"
    /\ idx = 2
    /\ \E c \in Roster : \E g \in Groups : home_count(c, g) + away_count(c, g) = 2

(* C4: at the end of every turn each committed fixture has its reverse in  *)
(* the list, and x-home-y-away occurs as often as y-home-x-away.           *)
C4_TwoLegs ==
    AtTurnBoundary =>
        /\ \A i \in 1..Len(scheduled_matches) :
              \E j \in 1..Len(scheduled_matches) :
                  scheduled_matches[j] =
                      Match(scheduled_matches[i].away_team, scheduled_matches[i].home_team)
        /\ \A x, y \in Roster :
              Cardinality(Directed(x, y)) = Cardinality(Directed(y, x))

(* Two pairings, four fixtures, at the end of a pass.                      *)
C4_Witness ==
    /\ pc = "completed"
    /\ Len(scheduled_matches) >= 4

(* C5: every competitor that reaches the engine has a group in 1..4 and    *)
(* no balance-counter lookup fails.                                        *)
C5_GroupsValidated ==
    /\ EngineBuilt => \A t \in Roster : t.group \in Groups
    /\ panic_at # "update_group_tracking"

(* C6: on a non-empty roster of distinct competitors with groups in 1..4   *)
(* no unwrap of the engine fails, every domain and counter lookup of a     *)
(* turn finds its entry, each turn advances the loop by exactly one roster *)
(* entry, and a started pass reaches Completed after Len(teams) turns.     *)
C6_PassCompletes ==
    /\ [](WellFormedRoster /\ pc # "reading" =>
            /\ ~EnginePanicked
            /\ AtTurnBoundary =>
                  /\ Roster \subseteq DOMAIN domains
                  /\ Roster \subseteq DOMAIN group_requirements
                  /\ \A t \in Roster :
                        /\ domains[t] \subseteq DOMAIN domains
                        /\ \A o \in Roster : o.group \in DOMAIN group_requirements[t])
    /\ [][WellFormedRoster /\ pc = "scheduling" =>
            \/ pc' = "scheduling" /\ idx <= Len(teams) /\ idx' = idx + 1
            \/ pc' = "completed" /\ idx = Len(teams) + 1 /\ idx' = idx]_vars
    /\ (WellFormedRoster /\ pc = "scheduling") ~> (pc = "completed")

(* A pass over a well-formed roster has completed although its last        *)
(* competitor found no candidate to accept.                                *)
C6_Witness ==
    /\ pc = "completed"
    /\ WellFormedRoster
    /\ Len(teams) >= 3
    /\ \E t \in Roster : t.group = GroupHi
    /\ scheduled_matches # <<>>
    /\ scheduled_matches[Len(scheduled_matches)].home_team # teams[Len(teams)]
    /\ scheduled_matches[Len(scheduled_matches)].away_team # teams[Len(teams)]

(* C7: once the engine is built no step adds an element to a domain or a   *)
(* key to the store, in any pass; and competitors whose pairing has been   *)
(* committed are out of each other's domain at every later turn boundary.  *)
C7_DomainsOnlyShrink ==
    /\ [][EngineBuilt =>
            /\ DOMAIN domains' = DOMAIN domains
            /\ \A t \in DOMAIN domains : domains'[t] \subseteq domains[t]]_vars
    /\ [](AtTurnBoundary =>
            \A i \in 1..Len(scheduled_matches) :
                /\ scheduled_matches[i].away_team \notin domains[scheduled_matches[i].home_team]
                /\ scheduled_matches[i].home_team \notin domains[scheduled_matches[i].away_team])

(* A further pass has run on an engine whose first pass removed a pairing. *)
C7_Witness ==
    /\ passes = 2
    /\ pc = "completed"
    /\ \E t \in Roster : domains[t] # Roster \ {t}

(* C8: right after construction each domain is the set of all other roster *)
(* competitors, and no competitor is ever in its own domain.               *)
C8_DomainsExcludeSelf ==
    /\ pc = "pending" =>
          /\ DOMAIN domains = Roster
          /\ \A t \in Roster : domains[t] = Roster \ {t}
    /\ \A t \in DOMAIN domains : t \notin domains[t]

(* A freshly built engine over three distinct competitors.                 *)
C8_Witness ==
    /\ pc = "pending"
    /\ Cardinality(Roster) = 3

ScenarioA == Team("A", "X", 1)
ScenarioB == Team("B", "X", 1)
ScenarioC == Team("C", "Y", 1)

(* C9: the pass over [A(X,1), B(X,1), C(Y,1)] ends with a non-empty list   *)
(* holding neither (A,B) nor (B,A); and whenever a pass over a roster with *)
(* two competitors of different countries ends, completed or cut short,    *)
(* the fixture list is non-empty.                                          *)
C9_ScenarioNonEmpty ==
    /\ (pc = "completed" /\ teams = <<ScenarioA, ScenarioB, ScenarioC>>) =>
          /\ scheduled_matches # <<>>
          /\ Directed(ScenarioA, ScenarioB) = {}
          /\ Directed(ScenarioB, ScenarioA) = {}
    /\ ((pc = "completed" \/ EnginePanicked) /\ ~OneCountry) =>
          scheduled_matches # <<>>

(* The scenario roster has been scheduled: A and B both met C.             *)
C9_Witness ==
    /\ pc = "completed"
    /\ teams = <<ScenarioA, ScenarioB, ScenarioC>>
    /\ Directed(ScenarioA, ScenarioC) # {}
    /\ Directed(ScenarioB, ScenarioC) # {}

(* C10: on an empty roster, a single competitor or a roster of one country *)
(* the pass raises no error, commits nothing and leaves every domain and   *)
(* every counter as the constructor set them.                              *)
C10_NothingToSchedule ==
    OneCountry =>
        /\ ~EnginePanicked
        /\ pc \in {"scheduling", "completed"} =>
              /\ scheduled_matches = <<>>
              /\ domains = [t \in Roster |-> Roster \ {t}]
              /\ group_requirements = [t \in Roster |-> [g \in Groups |-> <<0, 0>>]]

(* A pass over several competitors of one country has completed.           *)
C10_Witness ==
    /\ pc = "completed"
    /\ OneCountry
    /\ Cardinality(Roster) >= 2

---------------------------------------------------------------------------
(* Vocabulary of the later properties *)

Reverse(m) == Match(m.away_team, m.home_team)

(* Positions of the forward fixtures: fixtures are pushed in pairs.        *)
ForwardPositions == {i \in 1..Len(scheduled_matches) : i % 2 = 1}

InitiatedBy(t) == {i \in ForwardPositions : scheduled_matches[i].home_team = t}

Foreign(t, S) == {o \in S : o.country # t.country}

RowsOf(matches) == [i \in 1..Len(matches) |-> NameRow(matches[i])]

Occurrences(row, rows) == Cardinality({i \in 1..Len(rows) : rows[i] = row})

(* C11: the file save_matches wrote is the header followed by a            *)
(* permutation of the committed list's name pairs in non-decreasing order  *)
(* of the home name; a further export writes the same records again; and   *)
(* reporting leaves roster, fixtures, domains and counters untouched.      *)
C11_ExportSortedIdempotent ==
    /\ [](exports >= 1 =>
            /\ Len(sink) = Len(scheduled_matches) + 1
            /\ sink[1] = HeaderRow
            /\ \A i \in 1..Len(scheduled_matches) :
                  Occurrences(NameRow(scheduled_matches[i]), Tail(sink))
                      = Occurrences(NameRow(scheduled_matches[i]), RowsOf(scheduled_matches))
            /\ \A i, j \in 2..Len(sink) :
                  i < j => NameRank(sink[i][1]) <= NameRank(sink[j][1]))
    /\ [][(exports >= 1 /\ exports' = exports + 1) => sink' = sink]_vars
    /\ [][(pc' \in {"displayed", "saved"} \/ exports' # exports \/ stdout' # stdout) =>
            UNCHANGED <<teams, scheduled_matches, domains, group_requirements>>]_vars

(* The file has been written twice and its order is not the commit order.  *)
C11_Witness ==
    /\ exports = 2
    /\ pc = "saved"
    /\ Tail(sink) # RowsOf(scheduled_matches)

(* C12: with a roster of distinct competitors, the turn of t pushes a      *)
(* forward fixture with t at home exactly when t's domain at the start of  *)
(* the turn holds a competitor of another country; the opponent is taken   *)
(* from that domain, nothing else is pushed but the return fixture, and t  *)
(* initiates at most one pairing per pass.                                 *)
C12_FirstFit ==
    /\ [][(DistinctRoster /\ pc = "scheduling" /\ idx <= Len(teams)) =>
            LET t == teams[idx]
                n == Len(scheduled_matches)
            IN  IF Foreign(t, domains[t]) # {}
                THEN /\ Len(scheduled_matches') \in {n + 1, n + 2}
                     /\ SubSeq(scheduled_matches', 1, n) = scheduled_matches
                     /\ scheduled_matches'[n + 1].home_team = t
                     /\ scheduled_matches'[n + 1].away_team \in Foreign(t, domains[t])
                     /\ Len(scheduled_matches') = n + 2 =>
                           scheduled_matches'[n + 2] = Reverse(scheduled_matches'[n + 1])
                ELSE scheduled_matches' = scheduled_matches]_vars
    /\ [](DistinctRoster => \A t \in Roster : Cardinality(InitiatedBy(t)) <= passes)

(* Two turns are over: the first competitor initiated a pairing with the   *)
(* second, whose own turn then initiated none.                             *)
C12_Witness ==
    /\ DistinctRoster
    /\ pc = "scheduling"
    /\ passes = 1
    /\ idx = 3
    /\ Len(scheduled_matches) = 2
    /\ scheduled_matches[1] = Match(teams[1], teams[2])

(* C13: no directed fixture is committed twice and no pair of competitors  *)
(* is paired twice, in any state and after any number of passes.           *)
C13_NoRematch ==
    \A x, y \in Roster :
        /\ Cardinality(Directed(x, y)) <= 1
        /\ Cardinality(Directed(x, y) \cap ForwardPositions)
             + Cardinality(Directed(y, x) \cap ForwardPositions) <= 1

(* A second pass has run over three distinct competitors after the first   *)
(* pass paired two pairs of them: every competitor met its former          *)
(* opponents in the roster again and none was paired with them again.      *)
C13_Witness ==
    /\ passes = 2
    /\ pc = "completed"
    /\ DistinctRoster
    /\ Len(teams) = 3
    /\ Len(scheduled_matches) = 4

(* With a roster of four, a second pass can add a pairing initiated by a   *)
(* competitor that had already initiated one in the first pass.            *)
SecondPassAddsPairing ==
    /\ passes = 2
    /\ pc = "completed"
    /\ DistinctRoster
    /\ \E t \in Roster : Cardinality(InitiatedBy(t)) = 2

(* C14: during and after the first pass the list has even length at most   *)
(* twice the roster's, each fixture at an even position is the reverse of  *)
(* the one before it, and the home sides of the forward fixtures follow    *)
(* the roster order strictly.                                              *)
C14_CommitOrder ==
    (AtTurnBoundary /\ passes <= 1) =>
        LET n == Len(scheduled_matches) \div 2
        IN  /\ Len(scheduled_matches) = 2 * n
            /\ n <= Len(teams)
            /\ \A k \in 1..n :
                  scheduled_matches[2 * k] = Reverse(scheduled_matches[2 * k - 1])
            /\ \E f \in [1..n -> 1..Len(teams)] :
                  /\ \A k \in 1..n : teams[f[k]] = scheduled_matches[2 * k - 1].home_team
                  /\ \A k \in 1..n : \A l \in 1..n : k < l => f[k] < f[l]

(* One pass is over in which the first and the third competitor each       *)
(* initiated a pairing and the second none.                                *)
C14_Witness ==
    /\ pc = "completed"
    /\ passes = 1
    /\ Len(teams) = 3
    /\ Len(scheduled_matches) = 4
    /\ scheduled_matches[1].home_team = teams[1]
    /\ scheduled_matches[3].home_team = teams[3]
    /\ teams[2] \notin {teams[1], teams[3]}

(* The pass is over and the engine is intact.                              *)
PassOver == pc \in {"completed", "displayed", "saved"}

FixturesOf(c) ==
    {i \in 1..Len(scheduled_matches) :
        c \in {scheduled_matches[i].home_team, scheduled_matches[i].away_team}}

OthersInGroup(c, g) == {o \in Roster \ {c} : o.group = g}

NameTwinA == Team("A", "X", 1)
NameTwinB == Team("A", "Y", 4)

(* C15: two roster entries with the same name but another country or group *)
(* are two entities: each has its own domain and its own counters, each is *)
(* in the other's initial domain, and when their countries differ the turn *)
(* of one can commit a fixture against the other.                          *)
C15_IdentityIsTriple ==
    \A a, b \in Roster :
        (a.name = b.name /\ a # b) =>
            /\ AtTurnBoundary =>
                  /\ {a, b} \subseteq DOMAIN domains
                  /\ {a, b} \subseteq DOMAIN group_requirements
                  /\ Cardinality(DOMAIN domains) = Cardinality(Roster)
            /\ pc = "pending" => (a \in domains[b] /\ b \in domains[a])
            /\ (/\ pc = "scheduling"
                /\ idx <= Len(teams)
                /\ teams[idx] = a
                /\ b \in domains[a]
                /\ a.country # b.country) =>
                  ENABLED (/\ Turn
                           /\ Len(scheduled_matches') > Len(scheduled_matches)
                           /\ scheduled_matches'[Len(scheduled_matches) + 1] = Match(a, b))

(* The two competitors named A have been paired with each other, and their *)
(* counters differ.                                                        *)
C15_Witness ==
    /\ pc = "completed"
    /\ Directed(NameTwinA, NameTwinB) # {}
    /\ Directed(NameTwinB, NameTwinA) # {}
    /\ group_requirements[NameTwinA] # group_requirements[NameTwinB]

(* C16: after a pass over distinct competitors, a competitor is in no      *)
(* fixture exactly when no other competitor is of another country; every   *)
(* competitor that has a foreign competitor in the roster is at home in    *)
(* one fixture at least and away in one at least.                          *)
C16_PairedIffForeign ==
    (PassOver /\ DistinctRoster) =>
        \A c \in Roster :
            /\ FixturesOf(c) = {} <=> Foreign(c, Roster) = {}
            /\ Foreign(c, Roster) # {} =>
                  /\ \E i \in FixturesOf(c) : scheduled_matches[i].home_team = c
                  /\ \E i \in FixturesOf(c) : scheduled_matches[i].away_team = c

(* A pass is over in which a competitor initiated no pairing and yet was   *)
(* paired, as another one's opponent.                                      *)
C16_Witness ==
    /\ pc = "completed"
    /\ passes = 1
    /\ DistinctRoster
    /\ \E c \in Roster : InitiatedBy(c) = {} /\ FixturesOf(c) # {}

(* C17: at every turn boundary, for distinct competitors t and o, o is in  *)
(* t's domain exactly when no fixture between them is committed, and the   *)
(* domains are symmetric.                                                  *)
C17_DomainIffUnpaired ==
    AtTurnBoundary =>
        \A t, o \in Roster :
            t # o =>
                /\ o \in domains[t] <=> (Directed(t, o) = {} /\ Directed(o, t) = {})
                /\ o \in domains[t] <=> t \in domains[o]

(* In the middle of a pass one pair is out of each other's domains while   *)
(* another pair is still in them.                                          *)
C17_Witness ==
    /\ pc = "scheduling"
    /\ idx <= Len(teams)
    /\ \E t, o \in Roster : t # o /\ o \notin domains[t] /\ t \notin domains[o]
    /\ \E t, o \in Roster : t # o /\ o \in domains[t] /\ t \in domains[o]

(* C18: a turn of t that runs to its end either changes nothing of the     *)
(* engine (no candidate accepted) or, for one opponent o of t's domain,    *)
(* appends the two fixtures (t,o), (o,t), removes o from t's domain and t  *)
(* from o's, and leaves every counter but t's for o.group and o's for      *)
(* t.group as it was; the roster never changes.                            *)
C18_TurnFrame ==
    [][(pc = "scheduling" /\ pc' = "scheduling" /\ idx' = idx + 1) =>
         LET t == teams[idx]
         IN  /\ teams' = teams
             /\ IF Foreign(t, domains[t]) = {}
                THEN UNCHANGED <<scheduled_matches, domains, group_requirements>>
                ELSE \E o \in domains[t] :
                       /\ scheduled_matches' =
                             scheduled_matches \o <<Match(t, o), Match(o, t)>>
                       /\ domains' = [domains EXCEPT ![t] = @ \ {o}, ![o] = @ \ {t}]
                       /\ DOMAIN group_requirements' = DOMAIN group_requirements
                       /\ \A c \in DOMAIN group_requirements : \A g \in Groups :
                             <<c, g>> \notin {<<t, o.group>>, <<o, t.group>>} =>
                                 group_requirements'[c][g] = group_requirements[c][g]
                       /\ group_requirements'[t][o.group] # group_requirements[t][o.group]
                       /\ group_requirements'[o][t.group] # group_requirements[o][t.group]]_vars

(* The first turn has paired two competitors of different groups and left  *)
(* the third competitor's domain and counters as they were built.          *)
C18_Witness ==
    /\ pc = "scheduling"
    /\ idx = 2
    /\ Cardinality(Roster) = 3
    /\ Len(scheduled_matches) = 2
    /\ scheduled_matches[1].home_team.group # scheduled_matches[1].away_team.group
    /\ \E c \in Roster :
          /\ FixturesOf(c) = {}
          /\ domains[c] = Roster \ {c}
          /\ group_requirements[c] = [g \in Groups |-> <<0, 0>>]

(* C19: with distinct competitors, home_count(c,g) + away_count(c,g) never *)
(* exceeds twice the number of other competitors of group g, in any state  *)
(* of any pass; with at most 127 such competitors that is at most 254, so  *)
(* no counter reaches the value at which an increment overflows a u8.      *)
C19_CounterBound ==
    DistinctRoster =>
        \A c \in DOMAIN group_requirements : \A g \in DOMAIN group_requirements[c] :
            /\ home_count(c, g) + away_count(c, g) <= 2 * Cardinality(OthersInGroup(c, g))
            /\ Cardinality(OthersInGroup(c, g)) <= 127 =>
                  /\ home_count(c, g) < U8Max
                  /\ away_count(c, g) < U8Max

(* A competitor has met both other competitors of one group: its counters  *)
(* against that group are at the bound.                                    *)
C19_Witness ==
    /\ DistinctRoster
    /\ \E c \in DOMAIN group_requirements : \E g \in Groups :
          /\ Cardinality(OthersInGroup(c, g)) = 2
          /\ home_count(c, g) + away_count(c, g) = 4

====
